---------------------------- MODULE Spec2Model ----------------------------
(***************************************************************************)
(* MidiNoteToPc (src/src/lib.rs): a MIDI effect whose process() call turns *)
(* every incoming NoteOn into a MidiProgramChange, swallows NoteOff and    *)
(* forwards or drops every other event.                                    *)
(*                                                                         *)
(* The three parameters are independent atomics shared with the host: a    *)
(* control thread may store to them at any moment, also while process()    *)
(* runs.  process() loads each of them once (lines 101-103) and then       *)
(* drains the host's event queue (lines 105-143).                          *)
(***************************************************************************)
EXTENDS Integers, Sequences, FiniteSets, TLC

\* ------------------------------------------------------------------ bounds
\* Events the host delivers in one process() call.
MaxEvents == 2
\* Multi-parameter configuration changes of the control thread (SpecCfg).
MaxChanges == 2

\* ------------------------------------------------------ program constants
OutputChannelMin == 0
OutputChannelMax == 16
OutputChannelDefault == 0
MaxNoteMin == 0
MaxNoteMax == 127
MaxNoteDefault == 99
PassThroughDefault == TRUE

\* Values the model draws parameters and event fields from.
OutputChannelValues == {OutputChannelMin, 1, OutputChannelMax}
MaxNoteValues == {MaxNoteMin, MaxNoteDefault, MaxNoteMax}
Timings == {0, 5}
Channels == {0, 15}
Notes == {0, 99, 100}

\* `as u8` of an i32, and wrapping u8 arithmetic.
U8(x) == x % 256

\* ------------------------------------------------------------- NoteEvent
NoteOn(t, c, n) ==
    [kind |-> "NoteOn", timing |-> t, channel |-> c, note |-> n, velocity |-> 100]
NoteOff(t, c, n) ==
    [kind |-> "NoteOff", timing |-> t, channel |-> c, note |-> n, velocity |-> 0]
MidiProgramChange(t, c, p) ==
    [kind |-> "MidiProgramChange", timing |-> t, channel |-> c, program |-> p]
MidiCC(t, c, cc, v) ==
    [kind |-> "MidiCC", timing |-> t, channel |-> c, cc |-> cc, value |-> v]

NoteOnEvents == {NoteOn(t, c, n) : t \in Timings, c \in Channels, n \in Notes}
NoteOffEvents == {NoteOff(t, 15, 99) : t \in Timings}
OtherEvents ==
    {MidiCC(t, 15, 1, 64) : t \in Timings}
        \cup {MidiProgramChange(t, 0, 127) : t \in Timings}

VARIABLES
    params,        \* the shared parameter atomics
    pc,            \* position of the audio thread in process()
    output_ch,     \* local of process (line 101)
    max_note,      \* local of process (line 102)
    pass_through,  \* local of process (line 103)
    input,         \* events next_event() has returned in this call
    output,        \* events send_event() has received in this call
    origin,        \* origin[k]: index in input of the event output[k] was sent for
    underflow,     \* output_ch - 1 was evaluated on output_ch = 0
    warm,          \* an earlier process() call has returned
    versions,      \* configurations the control thread has applied (SpecCfg)
    cfg_pc         \* position of the control thread in a change (SpecCfg)

vars == <<params, pc, output_ch, max_note, pass_through, input, output,
          origin, underflow, warm, versions, cfg_pc>>

locals == <<output_ch, max_note, pass_through>>
block == <<input, output, origin, underflow>>
cfgvars == <<versions, cfg_pc>>

Default ==
    [output_channel |-> OutputChannelDefault,
     max_note |-> MaxNoteDefault,
     pass_through |-> PassThroughDefault]

Init ==
    /\ params = Default
    /\ pc = "idle"
    /\ output_ch = 0
    /\ max_note = 0
    /\ pass_through = FALSE
    /\ input = <<>>
    /\ output = <<>>
    /\ origin = <<>>
    /\ underflow = FALSE
    /\ warm = FALSE
    /\ versions = <<Default>>
    /\ cfg_pc = "idle"

\* ------------------------------------------------------ control thread
\* One store to one parameter, at any time.
SetOutputChannel ==
    /\ \E v \in OutputChannelValues :
           params' = [params EXCEPT !.output_channel = v]
    /\ UNCHANGED <<pc, locals, block, warm, cfgvars>>

SetMaxNote ==
    /\ \E v \in MaxNoteValues : params' = [params EXCEPT !.max_note = v]
    /\ UNCHANGED <<pc, locals, block, warm, cfgvars>>

SetPassThrough ==
    /\ \E v \in BOOLEAN : params' = [params EXCEPT !.pass_through = v]
    /\ UNCHANGED <<pc, locals, block, warm, cfgvars>>

\* ------------------------------------------------------------- process
Call ==
    /\ pc = "idle"
    /\ pc' = "read_output_ch"
    /\ input' = <<>>
    /\ output' = <<>>
    /\ origin' = <<>>
    /\ underflow' = FALSE
    /\ UNCHANGED <<params, locals, warm, cfgvars>>

ReadOutputCh ==
    /\ pc = "read_output_ch"
    /\ output_ch' = U8(params.output_channel)
    /\ pc' = "read_max_note"
    /\ UNCHANGED <<params, max_note, pass_through, block, warm, cfgvars>>

ReadMaxNote ==
    /\ pc = "read_max_note"
    /\ max_note' = U8(params.max_note)
    /\ pc' = "read_pass_through"
    /\ UNCHANGED <<params, output_ch, pass_through, block, warm, cfgvars>>

ReadPassThrough ==
    /\ pc = "read_pass_through"
    /\ pass_through' = params.pass_through
    /\ pc' = "loop"
    /\ UNCHANGED <<params, output_ch, max_note, block, warm, cfgvars>>

\* Events the host may deliver next: timings never decrease within a call.
Deliverable(S) ==
    {e \in S : input = <<>> \/ input[Len(input)].timing <= e.timing}

\* context.send_event: the host's output queue keeps the order of the calls.
SendEventFront(sink, x) == <<x>> \o sink
SendEvent(sink, x) == Append(sink, x)

\* line 115
NoteInRangeStrict(note) == note < max_note
NoteInRangeLive(note) == note <= U8(params.max_note)
NoteInRange(note) == note <= max_note

\* line 116
FollowInputNever == FALSE
FollowInput == output_ch = 0

\* lines 116-120
SelectChannelOneBased(channel) == IF FollowInput THEN channel ELSE output_ch
SelectChannel(channel) == IF FollowInput THEN channel ELSE U8(output_ch - 1)

\* line 125
ProgramOfOffset(note) == U8(note - 24)
ProgramOf(note) == note

\* line 138
PassThroughLive == params.pass_through
PassThroughEnabled == pass_through

\* The match arms: what each sends for event e, as a sequence of 0 or 1 events.
NoteOnArm(e) ==
    IF NoteInRange(e.note)
    THEN <<MidiProgramChange(e.timing, SelectChannel(e.channel), ProgramOf(e.note))>>
    ELSE <<>>

NoteOffForwarded(e) == IF pass_through THEN <<e>> ELSE <<>>
NoteOffArm(e) == <<>>

OtherArmRechannel(e) ==
    IF PassThroughEnabled
    THEN <<[e EXCEPT !.channel = SelectChannel(e.channel)]>>
    ELSE <<>>
OtherArm(e) == IF PassThroughEnabled THEN <<e>> ELSE <<>>

\* One iteration of the loop on event e, whose arm sends `sent`.
Iterate(e, sent) ==
    /\ input' = Append(input, e)
    /\ IF sent # <<>>
       THEN /\ output' = SendEvent(output, sent[1])
            /\ origin' = SendEvent(origin, Len(input) + 1)
       ELSE UNCHANGED <<output, origin>>

OnNoteOn ==
    /\ pc = "loop"
    /\ Len(input) < MaxEvents
    /\ \E e \in Deliverable(NoteOnEvents) :
        /\ Iterate(e, NoteOnArm(e))
        /\ underflow' =
               (underflow \/ (NoteInRange(e.note) /\ ~FollowInput /\ output_ch - 1 < 0))
    /\ UNCHANGED <<params, pc, locals, warm, cfgvars>>

OnNoteOff ==
    /\ pc = "loop"
    /\ Len(input) < MaxEvents
    /\ \E e \in Deliverable(NoteOffEvents) : Iterate(e, NoteOffArm(e))
    /\ UNCHANGED <<params, pc, locals, underflow, warm, cfgvars>>

OnOther ==
    /\ pc = "loop"
    /\ Len(input) < MaxEvents
    /\ \E e \in Deliverable(OtherEvents) : Iterate(e, OtherArm(e))
    /\ UNCHANGED <<params, pc, locals, underflow, warm, cfgvars>>

\* next_event() returns None: the loop ends and process returns.
Return ==
    /\ pc = "loop"
    /\ pc' = "idle"
    /\ output_ch' = 0
    /\ max_note' = 0
    /\ pass_through' = FALSE
    /\ input' = <<>>
    /\ output' = <<>>
    /\ origin' = <<>>
    /\ underflow' = FALSE
    /\ warm' = TRUE
    /\ UNCHANGED <<params, cfgvars>>

Next ==
    \/ Call
    \/ ReadOutputCh
    \/ ReadMaxNote
    \/ ReadPassThrough
    \/ OnNoteOn
    \/ OnNoteOff
    \/ OnOther
    \/ Return
    \/ SetOutputChannel
    \/ SetMaxNote
    \/ SetPassThrough

Spec == Init /\ [][Next]_vars

\* ------------------------------------- control thread, grouped changes
\* A configuration change that touches all three parameters.  The parameters
\* are separate atomics, so the change is three stores in program order.
Presets ==
    {Default,
     [output_channel |-> OutputChannelMax, max_note |-> MaxNoteMin, pass_through |-> FALSE],
     [output_channel |-> 1, max_note |-> MaxNoteMax, pass_through |-> FALSE]}

Target == versions[Len(versions)]

CfgBegin ==
    /\ cfg_pc = "idle"
    /\ Len(versions) <= MaxChanges
    /\ \E c \in Presets \ {Target} : versions' = Append(versions, c)
    /\ cfg_pc' = "store_output_channel"
    /\ UNCHANGED <<params, pc, locals, block, warm>>

CfgStoreOutputChannel ==
    /\ cfg_pc = "store_output_channel"
    /\ params' = [params EXCEPT !.output_channel = Target.output_channel]
    /\ cfg_pc' = "store_max_note"
    /\ UNCHANGED <<pc, locals, block, warm, versions>>

CfgStoreMaxNote ==
    /\ cfg_pc = "store_max_note"
    /\ params' = [params EXCEPT !.max_note = Target.max_note]
    /\ cfg_pc' = "store_pass_through"
    /\ UNCHANGED <<pc, locals, block, warm, versions>>

CfgStorePassThrough ==
    /\ cfg_pc = "store_pass_through"
    /\ params' = [params EXCEPT !.pass_through = Target.pass_through]
    /\ cfg_pc' = "idle"
    /\ UNCHANGED <<pc, locals, block, warm, versions>>

NextCfg ==
    \/ Call
    \/ ReadOutputCh
    \/ ReadMaxNote
    \/ ReadPassThrough
    \/ OnNoteOn
    \/ OnNoteOff
    \/ OnOther
    \/ Return
    \/ CfgBegin
    \/ CfgStoreOutputChannel
    \/ CfgStoreMaxNote
    \/ CfgStorePassThrough

SpecCfg == Init /\ [][NextCfg]_vars

\* ============================================================== claims
\* The configuration process() works with in the current call.
Snapshot ==
    [output_channel |-> output_ch, max_note |-> max_note, pass_through |-> pass_through]

\* Positions in output of the events sent for input[i].
SentFor(i) == {k \in 1..Len(output) : origin[k] = i}

Inputs(kind) == {i \in 1..Len(input) : input[i].kind = kind}

\* Positions in output of the events sent for a NoteOn.
Converted == {k \in 1..Len(output) : input[origin[k]].kind = "NoteOn"}

\* What one event becomes under configuration cfg, written from the match of
\* lines 106-142 as a function of the configuration and the event alone.
TranslateEvent(cfg, e) ==
    CASE e.kind = "NoteOn" ->
            IF e.note <= cfg.max_note
            THEN <<[kind |-> "MidiProgramChange",
                    timing |-> e.timing,
                    channel |-> IF cfg.output_channel = 0
                                THEN e.channel
                                ELSE cfg.output_channel - 1,
                    program |-> e.note]>>
            ELSE <<>>
      [] e.kind = "NoteOff" -> <<>>
      [] OTHER -> IF cfg.pass_through THEN <<e>> ELSE <<>>

RECURSIVE Translate(_, _)
Translate(cfg, evs) ==
    IF evs = <<>>
    THEN <<>>
    ELSE Translate(cfg, SubSeq(evs, 1, Len(evs) - 1))
             \o TranslateEvent(cfg, evs[Len(evs)])

\* C1: a NoteOn with note n <= max_note is answered by exactly one
\* MidiProgramChange with program n and the NoteOn's timing; a NoteOn with
\* n > max_note is answered by nothing.
C1_DirectMapping ==
    \A i \in Inputs("NoteOn") :
        IF input[i].note <= max_note
        THEN /\ Cardinality(SentFor(i)) = 1
             /\ \A k \in SentFor(i) :
                    /\ output[k].kind = "MidiProgramChange"
                    /\ output[k].program = input[i].note
                    /\ output[k].timing = input[i].timing
        ELSE SentFor(i) = {}

\* With max_note = 99, a note at the limit is converted and a note above it
\* is dropped in the same call.
C1_Witness ==
    /\ pc = "loop"
    /\ max_note = 99
    /\ \E i \in Inputs("NoteOn") : input[i].note = 99 /\ SentFor(i) # {}
    /\ \E i \in Inputs("NoteOn") : input[i].note = 100 /\ SentFor(i) = {}

\* C2: the MidiProgramChange sent for a NoteOn is on the NoteOn's channel when
\* the output channel read is 0, and on channel p - 1 when it is p in 1..16,
\* whatever the NoteOn's channel.
C2_ChannelSelection ==
    \A k \in Converted :
        /\ output_ch \in 0..16
        /\ output_ch = 0 => output[k].channel = input[origin[k]].channel
        /\ output_ch \in 1..16 => output[k].channel = output_ch - 1

\* A fixed channel overrides a different input channel.
C2_Witness ==
    /\ pc = "loop"
    /\ output_ch = 16
    /\ \E k \in Converted :
           input[origin[k]].channel = 0 /\ output[k].channel = 15

\* C3: the output holds no NoteOn and no NoteOff, and nothing is sent for a
\* NoteOff.
C3_NoNoteOutput ==
    /\ \A k \in 1..Len(output) : output[k].kind \notin {"NoteOn", "NoteOff"}
    /\ \A i \in Inputs("NoteOff") : SentFor(i) = {}

\* A NoteOff and a NoteOn out of range were consumed with pass_through on.
C3_Witness ==
    /\ pc = "loop"
    /\ pass_through
    /\ Inputs("NoteOff") # {}
    /\ \E i \in Inputs("NoteOn") : input[i].note > max_note

\* C4: an event that is neither NoteOn nor NoteOff is sent on unchanged when
\* pass_through is true and answered by nothing when it is false.
C4_PassThroughPolicy ==
    \A i \in 1..Len(input) :
        input[i].kind \notin {"NoteOn", "NoteOff"} =>
            IF pass_through
            THEN /\ Cardinality(SentFor(i)) = 1
                 /\ \A k \in SentFor(i) : output[k] = input[i]
            ELSE SentFor(i) = {}

\* An incoming MidiProgramChange above max_note and a MidiCC pass a fixed
\* output channel that differs from theirs.
C4_Witness ==
    /\ pc = "loop"
    /\ pass_through
    /\ output_ch = 1
    /\ \E i \in Inputs("MidiProgramChange") :
           input[i].program > max_note /\ SentFor(i) # {}
    /\ \E i \in Inputs("MidiCC") : input[i].channel = 15 /\ SentFor(i) # {}

\* C5: every input event is answered by at most one output event, the output
\* events are in the order of the input events they answer, each carries its
\* input's timing, and output timings never decrease.
C5_OrderPreserved ==
    /\ Len(origin) = Len(output)
    /\ \A k \in 1..Len(output) :
           /\ origin[k] \in 1..Len(input)
           /\ output[k].timing = input[origin[k]].timing
    /\ \A i \in 1..Len(input) : Cardinality(SentFor(i)) <= 1
    /\ \A k, l \in 1..Len(output) :
           k < l => origin[k] < origin[l] /\ output[k].timing <= output[l].timing

\* Two outputs at different timings.
C5_Witness ==
    /\ pc = "loop"
    /\ Len(output) >= 2
    /\ output[1].timing < output[2].timing

\* The mapping with zero point base: program n - base for n in
\* [base, min(base + max_note, 127)], nothing outside.
OffsetMapping(base) ==
    \A i \in Inputs("NoteOn") :
        LET n == input[i].note
            hi == IF base + max_note < 127 THEN base + max_note ELSE 127
        IN IF base <= n /\ n <= hi
           THEN /\ Cardinality(SentFor(i)) = 1
                /\ \A k \in SentFor(i) : output[k].program = n - base
           ELSE SentFor(i) = {}

\* C6 as stated, with the documented default base_note of 24.
C6_OffsetMappingBase24 == OffsetMapping(24)

\* C6 (amended): there is no base_note; the zero point is note 0, so a NoteOn
\* with note n is answered by program n for n in [0, min(max_note, 127)], notes
\* below 24 included, and by nothing for n > max_note.
C6_OffsetMappingBaseZero == OffsetMapping(0)

\* A note below 24 is converted to the program of its own number, and so is
\* a note above 24.
C6_Witness ==
    /\ pc = "loop"
    /\ \E k \in Converted : input[origin[k]].note = 0 /\ output[k].program = 0
    /\ \E k \in Converted : input[origin[k]].note = 99 /\ output[k].program = 99

\* C7: the three values process() works with are those of one configuration
\* the control thread applied, never a mix of two.
C7_ConsistentSnapshot ==
    pc = "loop" =>
        \E v \in 1..Len(versions) :
            /\ output_ch = U8(versions[v].output_channel)
            /\ max_note = U8(versions[v].max_note)
            /\ pass_through = versions[v].pass_through

\* C8: the output is a function of the configuration read and of the events
\* consumed in this call, and of nothing else.
C8_Deterministic == output = Translate(Snapshot, input)

\* In a call that follows an earlier one, some events answered and some not.
C8_Witness ==
    /\ pc = "loop"
    /\ warm
    /\ Len(input) >= 2
    /\ output # <<>>
    /\ Len(output) < Len(input)

\* C9: while the loop runs the three locals do not change, and every event
\* is answered as the values read at the start of the call dictate, whatever
\* the parameters hold by then.
C9_BlockConfigFixed ==
    [][(pc = "loop" /\ pc' = "loop") =>
          /\ locals' = locals
          /\ Len(input') = Len(input) + 1 =>
                 output' = output \o TranslateEvent(Snapshot, input'[Len(input')])]_vars

\* The last event was answered under the values read, and the parameters now
\* hold values under which it would have been answered differently.
C9_Witness ==
    /\ pc = "loop"
    /\ input # <<>>
    /\ U8(params.output_channel) # output_ch
    /\ U8(params.max_note) # max_note
    /\ params.pass_through # pass_through
    /\ LET e == input[Len(input)]
           live == [output_channel |-> U8(params.output_channel),
                    max_note |-> U8(params.max_note),
                    pass_through |-> params.pass_through]
       IN /\ TranslateEvent(live, e) # TranslateEvent(Snapshot, e)
          /\ TranslateEvent(Snapshot, e) # <<>>
          /\ output # <<>>
          /\ <<output[Len(output)]>> = TranslateEvent(Snapshot, e)

\* C10: output_ch - 1 is never evaluated on 0, and every MidiProgramChange
\* sent for a NoteOn has a channel in 0..15 and a program in 0..max_note.
C10_InMidiDomain ==
    /\ ~underflow
    /\ pc = "loop" => output_ch \in 0..16 /\ max_note \in 0..127
    /\ \A k \in Converted :
           /\ output[k].channel \in 0..15
           /\ output[k].program \in 0..max_note

\* The largest fixed channel and the largest program max_note allows.
C10_Witness ==
    /\ pc = "loop"
    /\ output_ch = 16
    /\ \E k \in Converted :
           output[k].channel = 15 /\ output[k].program = max_note

=============================================================================
